---- MODULE Spec2Model ----
(***************************************************************************)
(* Model of the nixpkgs-hashes harvesting pipeline                         *)
(* (data/src/nixpkgs-hashes/main.rs): the path evaluator subprocess, the   *)
(* Path Source stream (nix_eval_jobs), the dispatcher, the spawned batch   *)
(* query tasks, the receiver (aggregator), the statistics task and the     *)
(* block_on driver of main.                                                *)
(*                                                                         *)
(* All tasks run on one LocalExecutor, so a poll of one task is atomic     *)
(* with respect to the other tasks.  The subprocesses run concurrently     *)
(* with the executor, so their steps interleave with every task step.      *)
(*                                                                         *)
(* Left out: failures of the host environment other than the subprocess    *)
(* outcomes below (spawn failure, pipe read error, file create/write       *)
(* error); each of them ends the run the same way an evaluator failure     *)
(* or a query i/o error does.                                              *)
(***************************************************************************)
EXTENDS Integers, Sequences, FiniteSets, TLC

\* ------------------------------------------------------------------------
\* Program constants
\* ------------------------------------------------------------------------
STORE_PATHS_PER_QUERY == 8

MAX_CONCURRENT_STORE_QUERIES == 8

\* channel::bounded(1)
StatsCapacity == 1

\* ------------------------------------------------------------------------
\* Bounds of the exploration
\* ------------------------------------------------------------------------
\* Besides the compiled configuration (G = P = 8) the model explores scaled
\* configurations with G in 1..MaxGroup, P in 1..MaxPool, in which the permit
\* pool can be exhausted within the line bound.
MaxGroup == 2

MaxPool == 2

\* lines the evaluator may write in a scaled configuration
MaxLines == 3

\* error lines / protocol-violating lines the evaluator may write
MaxErrorLines == 1

MaxBadLines == 1

\* records the BufWriter holds before it flushes to the file
BufCap == 2

VARIABLES
    groupSize,      \* G: paths per query (STORE_PATHS_PER_QUERY)
    poolSize,       \* P: size of the semaphore (MAX_CONCURRENT_STORE_QUERIES)
    lineBudget,     \* lines the evaluator writes at most in this run
    evalExit,       \* evaluator: "none" (running), "ok", "fail", "killed"
    pipeOpen,       \* write end of the evaluator's stdout still open
    written,        \* every line the evaluator wrote, in order
    nread,          \* lines of `written` the BufReader has consumed
    dpc,            \* dispatcher position
    batch,          \* dispatcher: the Vec being filled
    srcTerminal,    \* Path Source: "none", "end", "error"
    produced,       \* paths the Path Source yielded, in order
    dispatched,     \* groups handed to a spawned task, in dispatch order
    sem,            \* permits available in the semaphore
    tasks,          \* spawned tasks that hold a permit (indices of dispatched)
    queries,        \* metadata-query subprocesses that are running
    chunks,         \* chunks channel (unbounded), results in completion order
    rpc,            \* receiver position
    cur,            \* receiver: hashes of the batch still to be written
    drv_count,      \* receiver: drv_hashes.len()
    hash_count,     \* receiver: hash_count
    unique,         \* receiver: the HashSet
    buf,            \* BufWriter: records buffered, not yet in the file
    file,           \* records in the output file
    appended,       \* records handed to writer.write_all, in order
    fed,            \* every hash handed to write_unique_hash, in order
    received,       \* Ok batches the receiver took from chunks, in order
    events,         \* every Statistic::Progress the receiver sent, in order
    stats,          \* stats channel (bounded)
    stats_tx_alive, \* the one Sender of the stats channel not yet dropped
    spc,            \* statistics position
    total_drvs,     \* statistics: total_drvs
    total_hashes,   \* statistics: total_hashes
    mainpc,         \* future driven by block_on: "try_zip", "statistics"
    exit,           \* process: "running", "success", or how it failed
    bucket,         \* a TimingBucket<SCALE> and the clock (rate estimator)
    report,         \* what its last update was given and what it then shows
    extract,        \* one derivation entry and what hashes_for_derivation gives
    codec,          \* a Hash or a text and what encoding / parsing it gives
    lock            \* a FlakeLock and the resolution of one of its inputs

vars == << groupSize, poolSize, lineBudget, evalExit, pipeOpen, written, nread,
           dpc, batch, srcTerminal, produced, dispatched, sem, tasks, queries, chunks,
           rpc, cur, drv_count, hash_count, unique, buf, file, appended, fed,
           received, events, stats, stats_tx_alive, spc, total_drvs, total_hashes,
           mainpc, exit, bucket, report, extract, codec, lock >>

\* the rate estimator, the extraction, the hash codec and the lock file are
\* explored on their own (TimingSpec, ExtractSpec, CodecSpec, LockSpec); the
\* pipeline leaves them alone
sideVars == << bucket, report, extract, codec, lock >>

cfgVars == << groupSize, poolSize, lineBudget >>

evalVars == << evalExit, pipeOpen, written >>

dispVars == << dpc, batch, srcTerminal, produced, dispatched, nread >>

recvVars == << rpc, cur, drv_count, hash_count, unique, buf, file, appended,
               fed, received, events >>

statVars == << spc, total_drvs, total_hashes >>

\* ------------------------------------------------------------------------
\* Data
\* ------------------------------------------------------------------------
\* Option::None
None == "None"

\* a JSON member that is missing / the JSON value null
Absent == "<absent>"

JsonNull == "<null>"

\* evaluator output lines.  A drvPath line carries its path; the k-th drvPath
\* line the evaluator writes carries path k.
DrvLine(k) == [kind |-> "drvPath", path |-> k]

ErrorLine == [kind |-> "error", path |-> 0]

BadLine == [kind |-> "other", path |-> 0]

RECURSIVE DrvPaths(_)
DrvPaths(ls) ==
    IF ls = << >> THEN << >>
    ELSE IF Head(ls).kind = "drvPath"
         THEN << Head(ls).path >> \o DrvPaths(Tail(ls))
         ELSE DrvPaths(Tail(ls))

\* struct Hash { hash: String, algo: Option<String> }
Hash(h, a) == [hash |-> h, algo |-> a]

\* Option<Hash>: None is the empty sequence, Some(h) the sequence of h alone
NoHash == << >>

SomeHash(h) == << h >>

\* Hash::with_algo
with_algo(h, a) == Hash(h, a)

\* one entry of the JSON object `nix derivation show` prints
DrvJson(envHash, envAlgo, outs) ==
    [env |-> [outputHash |-> envHash, outputHashAlgo |-> envAlgo],
     outputs |-> outs]

OutJson(name, h, a) == [name |-> name, hash |-> h, hashAlgo |-> a]

\* outputs of the metadata query the model draws from: the derivation of the
\* batch-completeness example, and an object of three derivations that has a
\* fixed-output hash without algorithm, a derivation without any hash, and
\* one record twice among the outputs of a derivation.
QueryOutputs ==
    { << DrvJson("abc", "sha256",
                 << OutJson("out", "xyz", "sha256"),
                    OutJson("dev", Absent, Absent) >>) >>,
      << DrvJson("xyz", JsonNull, << OutJson("out", Absent, Absent) >>),
         DrvJson(Absent, Absent, << OutJson("out", Absent, Absent) >>),
         DrvJson("abc", "sha256",
                 << OutJson("out", "xyz", "sha256"),
                    OutJson("doc", "xyz", "sha256") >>) >> }

\* filter_map over the outputs of one derivation (main.rs 331-348)
\* (variant: the outputs collected in reverse)
RECURSIVE OutputHashesReversed(_)
OutputHashesReversed(outs) ==
    IF outs = << >> THEN << >>
    ELSE LET o == Head(outs)
         IN  IF o.hash = Absent
             THEN OutputHashesReversed(Tail(outs))
             ELSE OutputHashesReversed(Tail(outs))
                  \o << << o.name, with_algo(o.hash, o.hashAlgo) >> >>

RECURSIVE OutputHashes(_)
OutputHashes(outs) ==
    IF outs = << >> THEN << >>
    ELSE LET o == Head(outs)
         IN  IF o.hash = Absent
             THEN OutputHashes(Tail(outs))
             ELSE << << o.name, with_algo(o.hash, o.hashAlgo) >> >>
                  \o OutputHashes(Tail(outs))

hashes_for_derivation(json) ==
    LET env_hash == IF json.env.outputHash = Absent
                    THEN None ELSE json.env.outputHash
        env_hash_algo == IF json.env.outputHashAlgo \in {Absent, JsonNull}
                         THEN None ELSE json.env.outputHashAlgo
    IN  [env |-> IF env_hash = None THEN NoHash
                 ELSE SomeHash(Hash(env_hash, env_hash_algo)),
         outputs |-> OutputHashes(json.outputs)]

\* to_object_iter(...).map(hashes_for_derivation).collect()
collect_hashes(out) == [i \in 1..Len(out) |-> hashes_for_derivation(out[i])]

\* the order in which the receiver's loops hand the hashes of one batch to
\* write_unique_hash: derivation by derivation, env first, then the outputs
RECURSIVE OutputsOnly(_)
OutputsOnly(outs) ==
    IF outs = << >> THEN << >>
    ELSE << Head(outs)[2] >> \o OutputsOnly(Tail(outs))

\* (variant: the outputs handed over before the env hash)
DrvHashSeqOutputsFirst(dh) ==
    OutputsOnly(dh.outputs)
    \o (IF dh.env = NoHash THEN << >> ELSE << dh.env[1] >>)

DrvHashSeq(dh) ==
    (IF dh.env = NoHash THEN << >> ELSE << dh.env[1] >>)
    \o OutputsOnly(dh.outputs)

RECURSIVE BatchHashSeq(_)
BatchHashSeq(drv_hashes) ==
    IF drv_hashes = << >> THEN << >>
    ELSE DrvHashSeq(Head(drv_hashes)) \o BatchHashSeq(Tail(drv_hashes))

\* HashSet::insert returns true when the value was not present
\* (variant: membership decided by the hash value alone)
IsNewByValue(u, h) == \A x \in u : x.hash # h.hash

IsNew(u, h) == h \notin u

\* BufWriter::write_all of one record: a record that does not fit flushes the
\* buffered records to the file first
BufWrite(b, f, rec) ==
    IF Len(b) + 1 > BufCap
    THEN [buf |-> << rec >>, file |-> f \o b]
    ELSE [buf |-> Append(b, rec), file |-> f]

\* Semaphore: a permit can be taken / a dropped permit goes back
\* (variant: acquire never waits)
CanAcquireAlways(s) == TRUE

CanAcquire(s) == s > 0

\* (variant: the permit is forgotten instead of dropped)
ReleasePermitLeak(s) == s

ReleasePermit(s) == s + 1

\* the stats channel is full
\* (variant: an unbounded stats channel)
StatsNeverFull(q) == FALSE

StatsFull(q) == Len(q) >= StatsCapacity

\* check_status(status): Ok(()) exactly for a successful exit
\* (variant: the status is not looked at)
check_statusAlwaysOk(status) == TRUE

check_status(status) == status = "ok"

\* hash_count += 1 after every write_unique_hash, new hash or not
\* (variant: only hashes that were new are counted)
CountHashIfNew(n, fresh) == IF fresh THEN n + 1 ELSE n

CountHash(n, fresh) == n + 1

\* output.status.success() of the metadata query
\* (variant: the status is not looked at)
status_successAlways(status) == TRUE

status_success(status) == status = "ok"

\* `res?` in the receiver: the result is an Err
\* (variant: an Err is taken for a batch without derivations)
is_errNever(res) == FALSE

is_err(res) == ~res.ok

\* kill_on_drop(true): dropping the Child of a running subprocess kills it
\* (variant: kill_on_drop not set)
KeepOnDrop(procs) == procs

KillOnDrop(procs) ==
    [ i \in DOMAIN procs |->
        IF procs[i] = "running" THEN "killed" ELSE procs[i] ]

\* batch.is_empty()
\* (variant: the loop breaks on any batch that is not full)
BatchIsNotFull(b) == Len(b) < groupSize

BatchIsEmpty(b) == b = << >>

CountOf(s, x) == Cardinality({ i \in 1..Len(s) : s[i] = x })

Range(s) == { s[i] : i \in 1..Len(s) }

\* ------------------------------------------------------------------------
\* TimingBucket<SCALE> (rate estimator).  A Duration or Instant is a number
\* of ticks, Second ticks to the time unit; the code counts nanoseconds.
\* ------------------------------------------------------------------------
Second == 1000

\* the three buckets of the statistics task (lines 150-152)
Scales == { 1000, 10000, 100000 }

\* Option<Duration>: None is the empty sequence
NoRate == << >>

SomeRate(d) == << d >>

TimingBucket_new(scale, start) ==
    [scale |-> scale, last_total |-> 0, last_update |-> start,
     since_start |-> 0, since_mark |-> 0]

marks_passed(b) == b.last_total \div b.scale

\* (variant: the time since the start is not accumulated)
updateNoSinceStart(b, now, curr_total) ==
    LET delta == curr_total - b.last_total
        elapsed == now - b.last_update
        last_mark == marks_passed(b)
        b1 == [b EXCEPT !.last_update = now, !.last_total = curr_total]
        curr_mark == marks_passed(b1)
    IN  IF curr_mark > last_mark
        THEN LET progress == curr_total % b.scale
                 complete == delta - progress
                 attributed == (elapsed * complete) \div delta
             IN  [b1 EXCEPT !.since_mark = elapsed - attributed]
        ELSE [b1 EXCEPT !.since_mark = @ + elapsed]

\* (variant: the time since the mark always accumulates)
updateAccumulate(b, now, curr_total) ==
    LET elapsed == now - b.last_update
    IN  [b EXCEPT !.last_update = now, !.last_total = curr_total,
                  !.since_start = @ + elapsed, !.since_mark = @ + elapsed]

update(b, now, curr_total) ==
    LET delta == curr_total - b.last_total
        elapsed == now - b.last_update
        last_mark == marks_passed(b)
        b1 == [b EXCEPT !.last_update = now, !.since_start = @ + elapsed,
                        !.last_total = curr_total]
        curr_mark == marks_passed(b1)
    IN  IF curr_mark > last_mark
        THEN LET progress == curr_total % b.scale
                 complete == delta - progress
                 attributed == (elapsed * complete) \div delta
             IN  [b1 EXCEPT !.since_mark = elapsed - attributed]
        ELSE [b1 EXCEPT !.since_mark = @ + elapsed]

\* (variant: the time since the last mark is not taken off)
average_rateSinceStart(b) ==
    IF marks_passed(b) = 0 THEN NoRate
    ELSE SomeRate(b.since_start \div marks_passed(b))

average_rate(b) ==
    LET marks == marks_passed(b)
    IN  IF marks = 0 THEN NoRate
        ELSE SomeRate((b.since_start - b.since_mark) \div marks)

average_rate_predictive(b) ==
    IF b.last_total = 0 THEN NoRate
    ELSE SomeRate((b.since_start * b.scale) \div b.last_total)

\* nothing reported yet
NoReport == [n |-> 0, prev_total |-> 0, elapsed |-> 0,
             avg |-> NoRate, pred |-> NoRate]

\* ------------------------------------------------------------------------
\* Extraction of one derivation entry
\* ------------------------------------------------------------------------
\* algo.map(..).unwrap() at line 344: an output with a hash and no hashAlgo
extraction_panics(json) ==
    \E i \in 1..Len(json.outputs) :
        json.outputs[i].hash # Absent /\ json.outputs[i].hashAlgo = Absent

NoExtract == [pc |-> "idle", json |-> DrvJson(Absent, Absent, << >>),
              panicked |-> FALSE, out |-> [env |-> NoHash, outputs |-> << >>]]

\* ------------------------------------------------------------------------
\* src/src/hash.rs: Hash, its text encodings and its parser.  A text is a
\* sequence of characters; the encodings are those of data_encoding
\* (HEXLOWER, BASE64 with padding, and BASE32NIX declared at hash.rs 10-12),
\* computed bit by bit, most significant bit first.
\* ------------------------------------------------------------------------
MAX_HASH_SIZE == 64

HashAlgos == { "blake3", "md5", "sha1", "sha256", "sha512" }

HashFormats == { "Base64", "Nix32", "Base16", "Sri" }

\* HashAlgo::size
size(algo) ==
    CASE algo = "blake3" -> 32
      [] algo = "md5" -> 16
      [] algo = "sha1" -> 20
      [] algo = "sha256" -> 32
      [] algo = "sha512" -> 64

\* <&str>::from(algo) / str::parse::<HashAlgo>: the lowercase names
AlgoText(algo) ==
    CASE algo = "blake3" -> << "b", "l", "a", "k", "e", "3" >>
      [] algo = "md5" -> << "m", "d", "5" >>
      [] algo = "sha1" -> << "s", "h", "a", "1" >>
      [] algo = "sha256" -> << "s", "h", "a", "2", "5", "6" >>
      [] algo = "sha512" -> << "s", "h", "a", "5", "1", "2" >>

HEXLOWER ==
    [bit |-> 4, padding |-> FALSE,
     symbols |-> << "0", "1", "2", "3", "4", "5", "6", "7", "8", "9", "a", "b",
                    "c", "d", "e", "f" >>]

BASE64 ==
    [bit |-> 6, padding |-> TRUE,
     symbols |-> << "A", "B", "C", "D", "E", "F", "G", "H", "I", "J", "K", "L",
                    "M", "N", "O", "P", "Q", "R", "S", "T", "U", "V", "W", "X",
                    "Y", "Z", "a", "b", "c", "d", "e", "f", "g", "h", "i", "j",
                    "k", "l", "m", "n", "o", "p", "q", "r", "s", "t", "u", "v",
                    "w", "x", "y", "z", "0", "1", "2", "3", "4", "5", "6", "7",
                    "8", "9", "+", "/" >>]

BASE32NIX ==
    [bit |-> 5, padding |-> FALSE,
     symbols |-> << "0", "1", "2", "3", "4", "5", "6", "7", "8", "9", "a", "b",
                    "c", "d", "f", "g", "h", "i", "j", "k", "l", "m", "n", "p",
                    "q", "r", "s", "v", "w", "x", "y", "z" >>]

PadChar == "="

Pow2(n) == 2 ^ n

\* bytes and characters of one block of a padded encoding
BlockBytes(enc) == IF enc.bit = 6 THEN 3 ELSE IF enc.bit = 5 THEN 5 ELSE 1

BlockChars(enc) == (8 * BlockBytes(enc)) \div enc.bit

\* Encoding::encode_len
encode_len(enc, n) ==
    IF enc.padding
    THEN ((n + BlockBytes(enc) - 1) \div BlockBytes(enc)) * BlockChars(enc)
    ELSE (8 * n + enc.bit - 1) \div enc.bit

\* Encoding::decode_len: the length is an error when it is not a whole
\* number of blocks (padded) or leaves a whole character over (unpadded)
decode_len(enc, len) ==
    IF enc.padding
    THEN [ok |-> len % BlockChars(enc) = 0,
          len |-> (len \div BlockChars(enc)) * BlockBytes(enc)]
    ELSE [ok |-> (enc.bit * len) % 8 < enc.bit,
          len |-> (enc.bit * len) \div 8]

\* bit j (from 0) of a byte string, zero beyond its end
ByteBit(bytes, j) ==
    IF j \div 8 + 1 > Len(bytes) THEN 0
    ELSE (bytes[j \div 8 + 1] \div Pow2(7 - (j % 8))) % 2

RECURSIVE ByteBits(_, _, _)
ByteBits(bytes, from, k) ==
    IF k = 0 THEN 0
    ELSE ByteBit(bytes, from) * Pow2(k - 1) + ByteBits(bytes, from + 1, k - 1)

\* Encoding::encode_write
Encoding_encode(enc, bytes) ==
    LET nsym == (8 * Len(bytes) + enc.bit - 1) \div enc.bit
        syms == [ i \in 1..nsym |->
                    enc.symbols[ByteBits(bytes, (i - 1) * enc.bit, enc.bit) + 1] ]
    IN  syms \o [ i \in 1..(encode_len(enc, Len(bytes)) - nsym) |-> PadChar ]

IsSymbol(enc, ch) == \E i \in 1..Len(enc.symbols) : enc.symbols[i] = ch

SymVal(enc, ch) == (CHOOSE i \in 1..Len(enc.symbols) : enc.symbols[i] = ch) - 1

\* padding characters that end the text (at most a block of them)
RECURSIVE TrailingPad(_)
TrailingPad(text) ==
    IF text = << >> \/ text[Len(text)] # PadChar THEN 0
    ELSE 1 + TrailingPad(SubSeq(text, 1, Len(text) - 1))

\* bit m (from 0) of a sequence of symbol values
ValBit(vals, bit, m) ==
    (vals[m \div bit + 1] \div Pow2(bit - 1 - (m % bit))) % 2

RECURSIVE ValBits(_, _, _, _)
ValBits(vals, bit, from, k) ==
    IF k = 0 THEN 0
    ELSE ValBit(vals, bit, from) * Pow2(k - 1)
         + ValBits(vals, bit, from + 1, k - 1)

\* Encoding::decode_mut(input, output) with an output of outlen bytes: the
\* library panics unless outlen is decode_len of the input's length; the
\* padding of the last block is taken off; a character that is no symbol, a
\* last block of one character, or trailing bits that are not zero are
\* errors; otherwise the bytes written are returned.
Encoding_decode_mut(enc, input, outlen) ==
    LET dl == decode_len(enc, Len(input))
        pad == IF enc.padding THEN TrailingPad(input) ELSE 0
        data == SubSeq(input, 1, Len(input) - pad)
        nbytes == (enc.bit * Len(data)) \div 8
        vals == [ i \in 1..Len(data) |-> SymVal(enc, data[i]) ]
        failed == [kind |-> "error", wrote |-> 0, bytes |-> << >>]
    IN  IF ~dl.ok \/ dl.len # outlen
        THEN [kind |-> "panic", wrote |-> 0, bytes |-> << >>]
        ELSE IF pad >= BlockChars(enc) - 1 /\ pad > 0
        THEN failed
        ELSE IF \E i \in 1..Len(data) : ~IsSymbol(enc, data[i])
        THEN failed
        ELSE IF (enc.bit * Len(data)) % 8 >= enc.bit
        THEN failed
        ELSE IF \E m \in (8 * nbytes)..(enc.bit * Len(data) - 1) :
                    ValBit(vals, enc.bit, m) # 0
        THEN failed
        ELSE [kind |-> "ok", wrote |-> nbytes,
              bytes |-> [ j \in 1..nbytes |->
                           ValBits(vals, enc.bit, 8 * (j - 1), 8) ]]

\* the bytes of a hash in its array of MAX_HASH_SIZE bytes
InArray(bytes) ==
    [ i \in 1..MAX_HASH_SIZE |-> IF i <= Len(bytes) THEN bytes[i] ELSE 0 ]

\* Hash::_new, and a Hash built with any format field (tests::hash_string
\* builds it with format: None)
Hash_new(algo, bytes, format) ==
    [algo |-> algo, bytes |-> bytes, format |-> format]

\* Hash::bytes
Hash_bytes(h) == SubSeq(h.bytes, 1, size(h.algo))

EncodingOf(format) ==
    IF format = "Base64" \/ format = "Sri" THEN BASE64
    ELSE IF format = "Nix32" THEN BASE32NIX
    ELSE HEXLOWER

\* Hash::to_string / Hash::encode
to_string(h, format, show_algo) ==
    (IF format = "Sri" THEN AlgoText(h.algo) \o << "-" >>
     ELSE IF show_algo THEN AlgoText(h.algo) \o << ":" >>
     ELSE << >>)
    \o Encoding_encode(EncodingOf(format), Hash_bytes(h))

\* the results of parsing: a Hash, a ParseError, or the panic of an index
\* out of range
NoParsedHash == Hash_new(None, << >>, None)

ParsedHash(h) == [kind |-> "Hash", hash |-> h, algo |-> h.algo, n |-> 0]

ParseFailure(kind, algo, n) ==
    [kind |-> kind, hash |-> NoParsedHash, algo |-> algo, n |-> n]

ParsePanic == ParseFailure("panic", None, 0)

\* Hash::decode
decode(hash, algo, is_sri) ==
    IF ~is_sri /\ Len(hash) = encode_len(HEXLOWER, size(algo))
    THEN LET r == Encoding_decode_mut(HEXLOWER, hash, size(algo))
         IN  IF r.kind = "panic" THEN ParsePanic
             ELSE IF r.kind = "error"
             THEN ParseFailure("InvalidEncoding", None, 0)
             ELSE ParsedHash(Hash_new(algo, InArray(r.bytes), "Base16"))
    ELSE IF ~is_sri /\ Len(hash) = encode_len(BASE32NIX, size(algo))
    THEN LET r == Encoding_decode_mut(BASE32NIX, hash, size(algo))
         IN  IF r.kind = "panic" THEN ParsePanic
             ELSE IF r.kind = "error"
             THEN ParseFailure("InvalidEncoding", None, 0)
             ELSE ParsedHash(Hash_new(algo, InArray(r.bytes), "Nix32"))
    ELSE IF is_sri \/ Len(hash) = encode_len(BASE64, size(algo))
    THEN LET dl == decode_len(BASE64, Len(hash))
         IN  IF ~dl.ok THEN ParseFailure("InvalidEncoding", None, 0)
             ELSE IF dl.len > MAX_HASH_SIZE + 2 THEN ParsePanic
             ELSE LET r == Encoding_decode_mut(BASE64, hash, dl.len)
                  IN  IF r.kind = "panic" THEN ParsePanic
                      ELSE IF r.kind = "error"
                      THEN ParseFailure("InvalidEncoding", None, 0)
                      ELSE IF r.wrote = size(algo)
                      THEN ParsedHash(Hash_new(algo, InArray(r.bytes),
                                               IF is_sri THEN "Sri"
                                               ELSE "Base64"))
                      ELSE ParseFailure("InvalidHash", algo, r.wrote)
    ELSE ParseFailure("WrongLength", algo, Len(hash))

\* str::split_once: the place of the first occurrence of ch, 0 if none
FirstIndex(text, ch) ==
    IF \E i \in 1..Len(text) : text[i] = ch
    THEN CHOOSE i \in 1..Len(text) :
            text[i] = ch /\ \A j \in 1..(i - 1) : text[j] # ch
    ELSE 0

\* Hash::parse_prefix: prefix (None when there is no separator), is_sri and
\* the rest; the prefix is an algorithm name or unknown
parse_prefix(input) ==
    LET colon == FirstIndex(input, ":")
        dash == FirstIndex(input, "-")
        at == IF colon > 0 THEN colon ELSE dash
        prefix == SubSeq(input, 1, at - 1)
    IN  [has_prefix |-> at > 0,
         known |-> \E a \in HashAlgos : AlgoText(a) = prefix,
         algo |-> IF \E a \in HashAlgos : AlgoText(a) = prefix
                  THEN CHOOSE a \in HashAlgos : AlgoText(a) = prefix
                  ELSE None,
         is_sri |-> colon = 0 /\ dash > 0,
         hash |-> SubSeq(input, at + 1, Len(input))]

\* Hash::parse_ (algo is None for Hash::parse, the wanted algorithm for
\* Hash::parse_as)
parse_(input, algo) ==
    LET p == parse_prefix(input)
    IN  IF p.has_prefix /\ ~p.known
        THEN ParseFailure("UnknownPrefix", None, 0)
        ELSE IF algo = None /\ ~p.has_prefix
        THEN ParseFailure("MissingPrefix", None, 0)
        ELSE IF algo # None /\ p.has_prefix /\ algo # p.algo
        THEN ParseFailure("ExpectedPrefix", algo, 0)
        ELSE decode(p.hash, IF algo # None THEN algo ELSE p.algo, p.is_sri)

Hash_parse(input) == parse_(input, None)

Hash_parse_as(input, algo) == parse_(input, algo)

\* nothing encoded or parsed yet
NoCodec ==
    [op |-> "idle", pc |-> "idle", hash |-> NoParsedHash, format |-> None,
     show_algo |-> FALSE, want |-> None, text |-> << >>,
     result |-> ParseFailure("none", None, 0)]

\* ------------------------------------------------------------------------
\* src/src/flake/lock.rs: FlakeLock and the resolution of an input.  A node
\* is known by its name; an InputNodeRef is a Name or a Follows path; the
\* two mutually recursive methods run on an explicit stack of their calls.
\* ------------------------------------------------------------------------
\* InputNodeRef (and no entry under that input name)
NameRef(n) == [kind |-> "Name", name |-> n, path |-> << >>]

FollowsRef(p) == [kind |-> "Follows", name |-> None, path |-> p]

NoRef == [kind |-> "absent", name |-> None, path |-> << >>]

InputNames == { "x", "y" }

\* InputNode: its inputs (Option<HashMap<String, InputNodeRef>>)
InputNode(has_inputs, x, y) ==
    [present |-> TRUE, has_inputs |-> has_inputs,
     inputs |-> [ n \in InputNames |-> IF n = "x" THEN x ELSE y ]]

NoNode == [present |-> FALSE, has_inputs |-> FALSE,
           inputs |-> [ n \in InputNames |-> NoRef ]]

\* HashMap::get on nodes: the node's name, None when there is no such node
nodes_get(self, name) ==
    IF name \in DOMAIN self.nodes /\ self.nodes[name].present
    THEN name ELSE None

\* inputs.as_ref()?.get(name)? of a node: NoRef when either is missing
input_get(self, node, name) ==
    IF node = None \/ ~self.nodes[node].has_inputs \/ name \notin InputNames
    THEN NoRef
    ELSE self.nodes[node].inputs[name]

\* a call of get_root_input(name) or get_input_by_ref(ref), and where it
\* stands: at its entry, or waiting for the call it made (the rest of a
\* Follows path still to walk)
Call(fn, name, ref) ==
    [fn |-> fn, at |-> "entry", name |-> name, ref |-> ref, rest |-> << >>]

\* calls the stack holds (deeper than any resolution that returns explores)
MaxDepth == 12

\* push a callee on the stack of calls; the stack is finite
CanPush(stack) == Len(stack) < MaxDepth

Pop(stack) == SubSeq(stack, 1, Len(stack) - 1)

Top(stack) == stack[Len(stack)]

SetTop(stack, f) == [stack EXCEPT ![Len(stack)] = f]

\* one step of the call on top of the stack: result is what to do next
\* ("return" a value to the caller, or "call" a callee after updating the
\* frame)
get_input_by_ref(self, f, ret) ==
    IF f.at = "entry"
    THEN IF f.ref.kind = "Name"
         THEN [do |-> "return", val |-> nodes_get(self, f.ref.name),
               frame |-> f, callee |-> f]
         ELSE IF f.ref.path = << >>
         THEN [do |-> "return", val |-> None, frame |-> f, callee |-> f]
         ELSE [do |-> "call", val |-> None,
               frame |-> [f EXCEPT !.at = "waiting", !.rest = Tail(f.ref.path)],
               callee |-> Call("get_root_input", Head(f.ref.path), NoRef)]
    ELSE IF ret = None \/ f.rest = << >>
    THEN [do |-> "return", val |-> ret, frame |-> f, callee |-> f]
    ELSE LET next == input_get(self, ret, Head(f.rest))
         IN  IF next.kind = "absent"
             THEN [do |-> "return", val |-> None, frame |-> f, callee |-> f]
             ELSE [do |-> "call", val |-> None,
                   frame |-> [f EXCEPT !.rest = Tail(f.rest)],
                   callee |-> Call("get_input_by_ref", None, next)]

get_root_input(self, f, ret) ==
    IF f.at = "entry"
    THEN LET ref == input_get(self, nodes_get(self, self.root), f.name)
         IN  IF ref.kind = "absent"
             THEN [do |-> "return", val |-> None, frame |-> f, callee |-> f]
             ELSE [do |-> "call", val |-> None,
                   frame |-> [f EXCEPT !.at = "waiting"],
                   callee |-> Call("get_input_by_ref", None, ref)]
    ELSE [do |-> "return", val |-> ret, frame |-> f, callee |-> f]

\* no lock file being resolved
NoLock ==
    [pc |-> "idle", file |-> [root |-> None, nodes |-> << >>],
     query |-> Call("none", None, NoRef), stack |-> << >>, ret |-> None,
     outcome |-> "none yet"]

\* the pipeline's view of them: a fresh bucket, nothing to extract, encode,
\* parse or resolve
SideIdle ==
    /\ bucket = TimingBucket_new(1000, 0)
    /\ report = NoReport
    /\ extract = NoExtract
    /\ codec = NoCodec
    /\ lock = NoLock

\* ------------------------------------------------------------------------
\* Initial state: main up to block_on (lines 68-71), evaluator not yet exited
\* ------------------------------------------------------------------------
Configs ==
    { [G |-> STORE_PATHS_PER_QUERY, P |-> MAX_CONCURRENT_STORE_QUERIES,
       N |-> STORE_PATHS_PER_QUERY + 1] }
    \cup { [G |-> g, P |-> p, N |-> MaxLines] :
             g \in 1..MaxGroup, p \in 1..MaxPool }

PipeInit ==
    /\ \E c \in Configs :
          /\ groupSize = c.G
          /\ poolSize = c.P
          /\ lineBudget = c.N
          /\ sem = c.P
    /\ evalExit = "none"
    /\ pipeOpen = TRUE
    /\ written = << >>
    /\ nread = 0
    /\ dpc = "check"
    /\ batch = << >>
    /\ srcTerminal = "none"
    /\ produced = << >>
    /\ dispatched = << >>
    /\ tasks = {}
    /\ queries = << >>
    /\ events = << >>
    /\ chunks = << >>
    /\ rpc = "recv"
    /\ cur = << >>
    /\ drv_count = 0
    /\ hash_count = 0
    /\ unique = {}
    /\ buf = << >>
    /\ file = << >>
    /\ appended = << >>
    /\ fed = << >>
    /\ received = << >>
    /\ stats = << >>
    /\ stats_tx_alive = TRUE
    /\ spc = "recv"
    /\ total_drvs = 0
    /\ total_hashes = 0
    /\ mainpc = "try_zip"
    /\ exit = "running"

Init == PipeInit /\ SideIdle

\* ------------------------------------------------------------------------
\* The run ends: main returns or unwinds.  Its locals are dropped: the
\* receiver future with its BufWriter (not flushed), the dispatcher future
\* with the evaluator's Child (kill_on_drop), stats_tx, and the executor with
\* every task still spawned on it (each drops its permit).
\* ------------------------------------------------------------------------
DropWith(how, procs) ==
    /\ exit' = how
    /\ tasks' = {}
    /\ sem' = sem + Cardinality(tasks)
    /\ queries' = KillOnDrop(procs)
    /\ buf' = << >>
    /\ evalExit' = IF evalExit = "none" THEN "killed" ELSE evalExit
    /\ stats_tx_alive' = FALSE

Drop(how) == DropWith(how, queries)

dropVars == << exit, tasks, sem, buf, evalExit, stats_tx_alive, queries >>

\* ------------------------------------------------------------------------
\* The path evaluator subprocess
\* ------------------------------------------------------------------------
NumKind(ls, k) == Cardinality({ i \in 1..Len(ls) : ls[i].kind = k })

EvalWrite ==
    /\ evalExit = "none"
    /\ pipeOpen
    /\ Len(written) < lineBudget
    /\ \E l \in { DrvLine(NumKind(written, "drvPath") + 1), ErrorLine, BadLine } :
          /\ l = ErrorLine => NumKind(written, "error") < MaxErrorLines
          /\ l = BadLine => NumKind(written, "other") < MaxBadLines
          /\ written' = Append(written, l)
    /\ UNCHANGED << sideVars, cfgVars, evalExit, pipeOpen, dispVars, sem, tasks, queries, chunks,
                    recvVars, stats, stats_tx_alive, statVars, mainpc, exit >>

\* the write end of the pipe closes (by the evaluator, or by the last of its
\* workers after the evaluator itself has exited)
EvalClose ==
    /\ exit = "running"
    /\ pipeOpen
    /\ pipeOpen' = FALSE
    /\ UNCHANGED << sideVars, cfgVars, evalExit, written, dispVars, sem, tasks, queries, chunks,
                    recvVars, stats, stats_tx_alive, statVars, mainpc, exit >>

EvalExit ==
    /\ evalExit = "none"
    /\ \E status \in { "ok", "fail" } : evalExit' = status
    /\ UNCHANGED << sideVars, cfgVars, pipeOpen, written, dispVars, sem, tasks, queries, chunks,
                    recvVars, stats, stats_tx_alive, statVars, mainpc, exit >>


\* ------------------------------------------------------------------------
\* Path Source (nix_eval_jobs) as polled by the dispatcher's chunk.try_next()
\* ------------------------------------------------------------------------
\* an exit status has been obtained (lines 273-274 and 278-279): success ends
\* the stream, and the dispatcher's while-let loop ends with the batch it has;
\* anything else is the Err that `?` returns from the dispatcher, which
\* try_zip and block_on hand to main at once.
StatusObtained(status) ==
    IF check_status(status)
    THEN /\ srcTerminal' = "end"
         /\ dpc' = IF BatchIsEmpty(batch) THEN "done" ELSE "acquire"
         /\ UNCHANGED dropVars
    ELSE /\ srcTerminal' = "error"
         /\ dpc' = "failed"
         /\ Drop("err_evaluator")

\* proc.try_status() before each read of a line
SrcTryStatus ==
    /\ exit = "running"
    /\ dpc = "check"
    /\ IF evalExit = "none"
       THEN /\ dpc' = "read"
            /\ UNCHANGED << srcTerminal, dropVars >>
       ELSE StatusObtained(evalExit)
    /\ UNCHANGED << sideVars, cfgVars, pipeOpen, written, nread, batch, produced,
                    dispatched, chunks, rpc, cur, drv_count, hash_count,
                    unique, file, appended, fed, received, events, stats, statVars,
                    mainpc >>

\* (&mut eval_drvs).take(STORE_PATHS_PER_QUERY): the chunk yields None once
\* it has handed over a full group of paths
\* (variant: the chunk is not limited)
ChunkNeverExhausted(n) == FALSE

ChunkExhausted(n) == n = groupSize

\* drv_paths.try_next(): the filter_map over the lines of the pipe
SrcReadLine ==
    /\ exit = "running"
    /\ dpc = "read"
    /\ nread < Len(written)
    /\ nread' = nread + 1
    /\ LET line == written[nread + 1]
       IN  IF line.kind = "drvPath"
           THEN /\ produced' = Append(produced, line.path)
                /\ batch' = Append(batch, line.path)
                /\ dpc' = IF ChunkExhausted(Len(batch) + 1)
                          THEN "acquire" ELSE "check"
                /\ UNCHANGED dropVars
           ELSE IF line.kind = "error"
           THEN /\ UNCHANGED << produced, batch, dpc, dropVars >>
           ELSE \* assert!(... ["error"] ...) fails: the dispatcher panics
                /\ dpc' = "failed"
                /\ Drop("panic_protocol")
                /\ UNCHANGED << produced, batch >>
    /\ UNCHANGED << sideVars, cfgVars, pipeOpen, written, srcTerminal, dispatched,
                    chunks, rpc, cur, drv_count, hash_count, unique, file,
                    appended, fed, received, events, stats, statVars, mainpc >>

\* the line stream ends: every line consumed and the write end closed
SrcEof ==
    /\ exit = "running"
    /\ dpc = "read"
    /\ nread = Len(written)
    /\ ~pipeOpen
    /\ dpc' = "wait"
    /\ UNCHANGED << sideVars, cfgVars, evalVars, nread, batch, srcTerminal, produced,
                    dispatched, sem, tasks, queries, chunks, recvVars, stats,
                    stats_tx_alive, statVars, mainpc, exit >>

\* proc.status().await after the line stream ended
SrcWaitStatus ==
    /\ exit = "running"
    /\ dpc = "wait"
    /\ evalExit # "none"
    /\ StatusObtained(evalExit)
    /\ UNCHANGED << sideVars, cfgVars, pipeOpen, written, nread, batch, produced,
                    dispatched, chunks, rpc, cur, drv_count, hash_count,
                    unique, file, appended, fed, received, events, stats, statVars,
                    mainpc >>

\* ------------------------------------------------------------------------
\* Dispatcher: sem.acquire_arc().await, then spawn the batch task (87-94).
\* Once the stream has ended the next chunk.try_next() yields None at once,
\* the batch is empty and the loop breaks: drop(chunks_tx).
\* ------------------------------------------------------------------------
Dispatch ==
    /\ exit = "running"
    /\ dpc = "acquire"
    /\ CanAcquire(sem)
    /\ sem' = sem - 1
    /\ dispatched' = Append(dispatched, batch)
    /\ tasks' = tasks \cup { Len(dispatched) + 1 }
    /\ queries' = Append(queries, "running")
    /\ batch' = << >>
    /\ dpc' = IF srcTerminal = "end" THEN "done" ELSE "check"
    /\ UNCHANGED << sideVars, cfgVars, evalVars, nread, srcTerminal, produced, chunks,
                    recvVars, stats, stats_tx_alive, statVars, mainpc, exit >>

\* ------------------------------------------------------------------------
\* Spawned batch task: collect_hashes_for_many_derivations, tx.send,
\* drop(permit).  The send on the unbounded channel never waits.
\* ------------------------------------------------------------------------
QueryOk ==
    /\ exit = "running"
    /\ \E t \in tasks, out \in QueryOutputs :
          /\ chunks' = Append(chunks, [ok |-> TRUE, status |-> "ok",
                                       drv_hashes |-> collect_hashes(out)])
          /\ tasks' = tasks \ { t }
          /\ queries' = [queries EXCEPT ![t] = "exited"]
    /\ sem' = ReleasePermit(sem)
    /\ UNCHANGED << sideVars, cfgVars, evalVars, dispVars, recvVars, stats,
                    stats_tx_alive, statVars, mainpc, exit >>

\* output().await fails: the Err is sent as the batch's result
QueryIoError ==
    /\ exit = "running"
    /\ \E t \in tasks :
          /\ chunks' = Append(chunks, [ok |-> FALSE, status |-> "io_error",
                                       drv_hashes |-> << >>])
          /\ tasks' = tasks \ { t }
          /\ queries' = [queries EXCEPT ![t] = "exited"]
    /\ sem' = ReleasePermit(sem)
    /\ UNCHANGED << sideVars, cfgVars, evalVars, dispVars, recvVars, stats,
                    stats_tx_alive, statVars, mainpc, exit >>

\* the query exits non-zero: todo!() panics in the task; the panic unwinds
\* through the executor's run into main.  (Were the status not looked at,
\* whatever the query printed would be parsed: here an empty object.)
QueryNonZero ==
    /\ exit = "running"
    /\ \E t \in tasks :
          IF ~status_success("nonzero")
          THEN /\ DropWith("panic_query", [queries EXCEPT ![t] = "exited"])
               /\ UNCHANGED chunks
          ELSE /\ chunks' = Append(chunks, [ok |-> TRUE, status |-> "nonzero",
                                            drv_hashes |-> << >>])
               /\ tasks' = tasks \ { t }
               /\ queries' = [queries EXCEPT ![t] = "exited"]
               /\ sem' = ReleasePermit(sem)
               /\ UNCHANGED << exit, buf, evalExit, stats_tx_alive >>
    /\ UNCHANGED << sideVars, cfgVars, pipeOpen, written, dispVars, rpc, cur,
                    drv_count, hash_count, unique, file, appended, fed,
                    received, events, stats, statVars, mainpc >>

\* ------------------------------------------------------------------------
\* Receiver (aggregator)
\* ------------------------------------------------------------------------
\* chunks_rx.recv() yields a result; `res?` returns an Err from the receiver,
\* which try_zip and block_on hand to main at once
ReceiverRecv ==
    /\ exit = "running"
    /\ rpc = "recv"
    /\ chunks # << >>
    /\ chunks' = Tail(chunks)
    /\ IF ~is_err(Head(chunks))
       THEN /\ rpc' = "batch"
            /\ cur' = BatchHashSeq(Head(chunks).drv_hashes)
            /\ drv_count' = Len(Head(chunks).drv_hashes)
            /\ hash_count' = 0
            /\ received' = Append(received, Head(chunks).drv_hashes)
            /\ UNCHANGED dropVars
       ELSE /\ rpc' = "failed"
            /\ Drop("err_query")
            /\ UNCHANGED << cur, drv_count, hash_count, received >>
    /\ UNCHANGED << sideVars, cfgVars, pipeOpen, written, dispVars, unique,
                    file, appended, fed, events, stats, statVars, mainpc >>

\* write_unique_hash for the next hash of the batch, then hash_count += 1
ReceiverWrite ==
    /\ exit = "running"
    /\ rpc = "batch"
    /\ cur # << >>
    /\ LET hash == Head(cur)
       IN  /\ fed' = Append(fed, hash)
           /\ IF IsNew(unique, hash)
              THEN /\ unique' = unique \cup { hash }
                   /\ appended' = Append(appended, hash)
                   /\ buf' = BufWrite(buf, file, hash).buf
                   /\ file' = BufWrite(buf, file, hash).file
              ELSE UNCHANGED << unique, appended, buf, file >>
    /\ cur' = Tail(cur)
    /\ hash_count' = CountHash(hash_count, IsNew(unique, Head(cur)))
    /\ UNCHANGED << sideVars, cfgVars, evalVars, dispVars, sem, tasks, queries,
                    chunks, rpc, drv_count, received, events, stats,
                    stats_tx_alive, statVars, mainpc, exit >>

\* stats_tx.send(Statistic::Progress { .. }).await once the batch is done
ReceiverSend ==
    /\ exit = "running"
    /\ rpc = "batch"
    /\ cur = << >>
    /\ ~StatsFull(stats)
    /\ LET msg == [drvs |-> drv_count, hashes |-> hash_count,
                    total_unique |-> Cardinality(unique)]
       IN  /\ stats' = Append(stats, msg)
           /\ events' = Append(events, msg)
    /\ rpc' = "recv"
    /\ UNCHANGED << sideVars, cfgVars, evalVars, dispVars, sem, tasks, queries, chunks, cur,
                    drv_count, hash_count, unique, buf, file, appended, fed,
                    received, stats_tx_alive, statVars, mainpc, exit >>

\* chunks_rx.recv() yields Err: the channel is empty and every Sender is
\* gone (the dispatcher dropped chunks_tx, no task holds a clone);
\* writer.close() flushes the buffer
ReceiverClose ==
    /\ exit = "running"
    /\ rpc = "recv"
    /\ chunks = << >>
    /\ dpc = "done"
    /\ tasks = {}
    /\ file' = file \o buf
    /\ buf' = << >>
    /\ rpc' = "done"
    /\ UNCHANGED << sideVars, cfgVars, evalVars, dispVars, sem, tasks, queries, chunks, cur,
                    drv_count, hash_count, unique, appended, fed, received,
                    events, stats, stats_tx_alive, statVars, mainpc, exit >>

\* ------------------------------------------------------------------------
\* Statistics (rate reporter): stats_rx.recv() yields an event, or Err once
\* the channel is empty and its Sender has been dropped.  stats_tx is a
\* local of main that the receiver only borrows.
\* ------------------------------------------------------------------------
Statistics ==
    /\ exit = "running"
    /\ spc = "recv"
    /\ IF stats # << >>
       THEN /\ total_hashes' = total_hashes + Head(stats).hashes
            /\ total_drvs' = total_drvs + Head(stats).drvs
            /\ stats' = Tail(stats)
            /\ UNCHANGED spc
       ELSE /\ ~stats_tx_alive
            /\ spc' = "done"
            /\ UNCHANGED << total_hashes, total_drvs, stats >>
    /\ UNCHANGED << sideVars, cfgVars, evalVars, dispVars, sem, tasks, queries, chunks, recvVars,
                    stats_tx_alive, mainpc, exit >>

\* ------------------------------------------------------------------------
\* The future run by block_on (184-189): try_zip(dispatcher, receiver), then
\* statistics_.await, then main returns Ok
\* ------------------------------------------------------------------------
BlockOn ==
    /\ exit = "running"
    /\ IF mainpc = "try_zip"
       THEN /\ dpc = "done"
            /\ rpc = "done"
            /\ mainpc' = "statistics"
            /\ UNCHANGED dropVars
       ELSE /\ spc = "done"
            /\ Drop("success")
            /\ UNCHANGED mainpc
    /\ UNCHANGED << sideVars, cfgVars, pipeOpen, written, dispVars, chunks, rpc, cur,
                    drv_count, hash_count, unique, file, appended, fed,
                    received, events, stats, statVars >>

Next ==
    \/ EvalWrite
    \/ EvalClose
    \/ EvalExit
    \/ SrcTryStatus
    \/ SrcReadLine
    \/ SrcEof
    \/ SrcWaitStatus
    \/ Dispatch
    \/ QueryOk
    \/ QueryIoError
    \/ QueryNonZero
    \/ ReceiverRecv
    \/ ReceiverWrite
    \/ ReceiverSend
    \/ ReceiverClose
    \/ Statistics
    \/ BlockOn

Spec == Init /\ [][Next]_vars

\* ------------------------------------------------------------------------
\* The rate estimator on its own: one bucket of each scale, updated as the
\* statistics task does (lines 161-178) with the clock and the running
\* total of hashes as inputs, then shown (fmt calls average_rate or
\* average_rate_predictive).
\* ------------------------------------------------------------------------
\* updates explored per bucket, marks a total may pass, time that may elapse
MaxUpdates == 3

MaxMarks == 2

MaxSeconds == 2

\* time between two updates, and hashes added by one event
Elapsed == { 0, 1, Second }

Deltas(scale) ==
    { 0, scale \div 20, scale \div 10, (19 * scale) \div 20, scale,
      scale + scale \div 20 }

PipeIdle == PipeInit /\ groupSize = STORE_PATHS_PER_QUERY

TimingInit ==
    /\ PipeIdle
    /\ \E scale \in Scales : bucket = TimingBucket_new(scale, 0)
    /\ report = NoReport
    /\ extract = NoExtract
    /\ codec = NoCodec
    /\ lock = NoLock

BucketUpdate ==
    /\ report.n < MaxUpdates
    /\ \E e \in Elapsed, d \in Deltas(bucket.scale) :
          LET now == bucket.last_update + e
              total_hashes_ == bucket.last_total + d
          IN  /\ now <= MaxSeconds * Second
              /\ total_hashes_ <= MaxMarks * bucket.scale + bucket.scale \div 10
              /\ bucket' = update(bucket, now, total_hashes_)
              /\ report' = [n |-> report.n + 1,
                            prev_total |-> bucket.last_total,
                            elapsed |-> e,
                            avg |-> average_rate(bucket'),
                            pred |-> average_rate_predictive(bucket')]
    /\ UNCHANGED << extract, codec, lock, cfgVars, evalVars, dispVars, sem, tasks, queries,
                    chunks, recvVars, stats, stats_tx_alive, statVars, mainpc,
                    exit >>

TimingNext == BucketUpdate

TimingSpec == TimingInit /\ [][TimingNext]_vars

\* ------------------------------------------------------------------------
\* hashes_for_derivation on its own: one entry of the query's JSON object,
\* drawn from the shapes of the interface (env with or without outputHash /
\* outputHashAlgo, the latter possibly null; outputs with or without hash)
\* and the shape that makes the extraction panic.
\* ------------------------------------------------------------------------
MaxOutputs == 2

OutputNames == << "out", "dev", "doc", "man" >>

OutputShapes ==
    { << Absent, Absent >>, << "xyz", "sha256" >>, << "abc", "sha512" >>,
      << "xyz", Absent >> }

OutputSeqs ==
    UNION { [ 1..n -> OutputShapes ] : n \in 0..MaxOutputs }

DrvJsons ==
    { DrvJson(h, a, [ i \in 1..Len(os) |->
                        OutJson(OutputNames[i], os[i][1], os[i][2]) ]) :
        h \in { Absent, "abc" }, a \in { Absent, JsonNull, "sha256" },
        os \in OutputSeqs }

ExtractInit ==
    /\ PipeIdle
    /\ bucket = TimingBucket_new(1000, 0)
    /\ report = NoReport
    /\ \E j \in DrvJsons : extract = [NoExtract EXCEPT !.pc = "json", !.json = j]
    /\ codec = NoCodec
    /\ lock = NoLock

ExtractDerivation ==
    /\ extract.pc = "json"
    /\ extract' =
          IF extraction_panics(extract.json)
          THEN [extract EXCEPT !.pc = "done", !.panicked = TRUE]
          ELSE [extract EXCEPT !.pc = "done",
                               !.out = hashes_for_derivation(extract.json)]
    /\ UNCHANGED << bucket, report, codec, lock, cfgVars, evalVars, dispVars, sem, tasks,
                    queries, chunks, recvVars, stats, stats_tx_alive, statVars,
                    mainpc, exit >>

ExtractNext == ExtractDerivation

ExtractSpec == ExtractInit /\ [][ExtractNext]_vars

\* ------------------------------------------------------------------------
\* The hash codec on its own: a Hash is encoded and the text parsed back
\* (tests::roundtrip), or a text is parsed (tests::invalid_hash).
\* ------------------------------------------------------------------------
\* blocks of four characters in the longest base64 payload explored
MaxBlocks == 23

Rep(ch, n) == [ i \in 1..n |-> ch ]

\* digests: all zero, mixed, all ones
BytePatterns(n) ==
    { [ i \in 1..n |-> 0 ], [ i \in 1..n |-> (37 * i) % 256 ],
      [ i \in 1..n |-> 255 ] }

\* payload lengths: those of the three encodings of each algorithm, and
\* whole base64 blocks of other sizes up to MaxBlocks
PayloadLens ==
    { encode_len(e, size(a)) : e \in { HEXLOWER, BASE32NIX, BASE64 },
                               a \in HashAlgos }
    \cup { 4 * k : k \in { 0, 5, 7, 11, 22, MaxBlocks } }

Payloads ==
    { Rep(ch, n - pad) \o Rep(PadChar, pad) :
        ch \in { "A", "0" }, n \in PayloadLens \ { 0 }, pad \in 0..2 }
    \cup { << >> }

Prefixes ==
    { << >> }
    \cup { AlgoText(a) \o << sep >> : a \in HashAlgos, sep \in { ":", "-" } }
    \cup { << "s", "h", "a", "3", sep >> : sep \in { ":", "-" } }

CodecInit ==
    /\ PipeIdle
    /\ bucket = TimingBucket_new(1000, 0)
    /\ report = NoReport
    /\ extract = NoExtract
    /\ lock = NoLock
    /\ \/ \E a \in HashAlgos, f0 \in HashFormats \cup { None },
            f \in HashFormats, sa \in BOOLEAN :
            \E b \in BytePatterns(size(a)) :
               codec = [NoCodec EXCEPT !.op = "roundtrip", !.pc = "input",
                                        !.hash = Hash_new(a, InArray(b), f0),
                                        !.format = f, !.show_algo = sa]
       \/ \E pre \in Prefixes, pay \in Payloads,
            want \in { None, "md5", "sha256" } :
               codec = [NoCodec EXCEPT !.op = "parse", !.pc = "input",
                                        !.text = pre \o pay, !.want = want]

\* tests::roundtrip: to_string, then parse (prefix shown) or parse_as
CodecRoundTrip ==
    /\ codec.pc = "input"
    /\ codec.op = "roundtrip"
    /\ LET encoded == to_string(codec.hash, codec.format, codec.show_algo)
       IN  codec' = [codec EXCEPT
                       !.pc = "done",
                       !.text = encoded,
                       !.result = IF codec.show_algo
                                  THEN Hash_parse(encoded)
                                  ELSE Hash_parse_as(encoded, codec.hash.algo)]
    /\ UNCHANGED << bucket, report, extract, lock, cfgVars, evalVars, dispVars,
                    sem, tasks, queries, chunks, recvVars, stats,
                    stats_tx_alive, statVars, mainpc, exit >>

\* Hash::parse / Hash::parse_as of a text
CodecParse ==
    /\ codec.pc = "input"
    /\ codec.op = "parse"
    /\ codec' = [codec EXCEPT !.pc = "done",
                              !.result = parse_(codec.text, codec.want)]
    /\ UNCHANGED << bucket, report, extract, lock, cfgVars, evalVars, dispVars,
                    sem, tasks, queries, chunks, recvVars, stats,
                    stats_tx_alive, statVars, mainpc, exit >>

CodecNext == CodecRoundTrip \/ CodecParse

CodecSpec == CodecInit /\ [][CodecNext]_vars

\* ------------------------------------------------------------------------
\* The lock file on its own: one FlakeLock and one call of get_root_input
\* or get_input_by_ref, run call by call.
\* ------------------------------------------------------------------------
RootRefs ==
    { NoRef, NameRef("a"), NameRef("c"), FollowsRef(<< >>),
      FollowsRef(<< "x" >>), FollowsRef(<< "y" >>),
      FollowsRef(<< "x", "y" >>), FollowsRef(<< "y", "x" >>) }

InnerNodes ==
    { InputNode(FALSE, NoRef, NoRef) }
    \cup { InputNode(TRUE, x, y) :
             x \in { NoRef, NameRef("b"), FollowsRef(<< "y" >>) },
             y \in { NoRef, NameRef("b") } }

FlakeLocks ==
    { [root |-> "root",
       nodes |-> [ n \in { "root", "a", "b" } |->
                     IF n = "root" THEN r ELSE IF n = "a" THEN a
                     ELSE InputNode(FALSE, NoRef, NoRef) ]] :
        r \in { NoNode, InputNode(FALSE, NoRef, NoRef) }
              \cup { InputNode(TRUE, x, y) : x \in RootRefs, y \in RootRefs },
        a \in InnerNodes }

Queries ==
    { Call("get_root_input", n, NoRef) : n \in { "x", "y", "z" } }
    \cup { Call("get_input_by_ref", None, r) :
             r \in { NameRef("a"), FollowsRef(<< "x" >>),
                     FollowsRef(<< "x", "y" >>) } }

LockInit ==
    /\ PipeIdle
    /\ bucket = TimingBucket_new(1000, 0)
    /\ report = NoReport
    /\ extract = NoExtract
    /\ codec = NoCodec
    /\ \E fl \in FlakeLocks, q \in Queries :
          lock = [NoLock EXCEPT !.pc = "run", !.file = fl, !.query = q,
                                !.stack = << q >>]

\* the call on top of the stack runs up to its return or its next call
LockStep ==
    /\ lock.pc = "run"
    /\ LET f == Top(lock.stack)
           r == IF f.fn = "get_root_input"
                THEN get_root_input(lock.file, f, lock.ret)
                ELSE get_input_by_ref(lock.file, f, lock.ret)
       IN  IF r.do = "return"
           THEN lock' = [lock EXCEPT
                           !.stack = Pop(lock.stack),
                           !.ret = r.val,
                           !.pc = IF Len(lock.stack) = 1 THEN "done" ELSE "run",
                           !.outcome = IF Len(lock.stack) > 1 THEN "none yet"
                                       ELSE IF r.val = None THEN "none"
                                       ELSE "node"]
           ELSE IF CanPush(lock.stack)
           THEN lock' = [lock EXCEPT
                           !.stack = Append(SetTop(lock.stack, r.frame),
                                            r.callee),
                           !.ret = None]
           ELSE lock' = [lock EXCEPT !.pc = "done",
                                     !.outcome = "stack_overflow"]
    /\ UNCHANGED << bucket, report, extract, codec, cfgVars, evalVars,
                    dispVars, sem, tasks, queries, chunks, recvVars, stats,
                    stats_tx_alive, statVars, mainpc, exit >>

LockNext == LockStep

LockSpec == LockInit /\ [][LockNext]_vars

\* tasks are scheduled fairly by the executor, a started subprocess
\* eventually finishes, and the evaluator eventually closes its output and
\* exits
FairSpec ==
    /\ Spec
    /\ WF_vars(EvalClose)
    /\ WF_vars(EvalExit)
    /\ WF_vars(SrcTryStatus)
    /\ WF_vars(SrcReadLine)
    /\ WF_vars(SrcEof)
    /\ WF_vars(SrcWaitStatus)
    /\ WF_vars(Dispatch)
    /\ WF_vars(QueryOk \/ QueryIoError \/ QueryNonZero)
    /\ WF_vars(ReceiverRecv)
    /\ WF_vars(ReceiverWrite)
    /\ WF_vars(ReceiverSend)
    /\ WF_vars(ReceiverClose)
    /\ WF_vars(Statistics)
    /\ WF_vars(BlockOn)

\* as FairSpec, but nothing obliges the write end of the evaluator's pipe to
\* close: a worker process that inherited it may keep it open after the
\* evaluator itself has exited
OpenPipeFairSpec ==
    /\ Spec
    /\ WF_vars(EvalExit)
    /\ WF_vars(SrcTryStatus)
    /\ WF_vars(SrcReadLine)
    /\ WF_vars(SrcEof)
    /\ WF_vars(SrcWaitStatus)
    /\ WF_vars(Dispatch)
    /\ WF_vars(QueryOk \/ QueryIoError \/ QueryNonZero)
    /\ WF_vars(ReceiverRecv)
    /\ WF_vars(ReceiverWrite)
    /\ WF_vars(ReceiverSend)
    /\ WF_vars(ReceiverClose)
    /\ WF_vars(Statistics)
    /\ WF_vars(BlockOn)

TypeOK ==
    /\ sem \in 0..poolSize
    /\ tasks \subseteq 1..Len(dispatched)
    /\ nread \in 0..Len(written)
    /\ Len(written) <= lineBudget
    /\ Len(batch) <= groupSize
    /\ dpc \in { "check", "read", "wait", "acquire", "done", "failed" }
    /\ rpc \in { "recv", "batch", "done", "failed" }
    /\ spc \in { "recv", "done" }
    /\ mainpc \in { "try_zip", "statistics" }
    /\ evalExit \in { "none", "ok", "fail", "killed" }
    /\ srcTerminal \in { "none", "end", "error" }
    /\ exit \in { "running", "success", "err_evaluator", "err_query",
                  "panic_query", "panic_protocol" }
    /\ Len(queries) = Len(dispatched)
    /\ \A i \in 1..Len(queries) :
          queries[i] \in { "running", "exited", "killed" }
    /\ Len(stats) <= StatsCapacity
    /\ Len(events) <= Len(received)
    /\ bucket.scale \in Scales
    /\ bucket.since_mark \in 0..bucket.since_start
    /\ extract.pc \in { "idle", "json", "done" }

\* ========================================================================
\* Properties
\* ========================================================================
Min(a, b) == IF a < b THEN a ELSE b

\* the run ended with a fatal error or a panic
Fatal == exit \in { "err_evaluator", "err_query", "panic_query",
                    "panic_protocol" }

\* C1. Permit bound: the batch tasks that were launched and have not yet
\* released their permit are never more than the pool size P, and a task is
\* launched only by a step that takes a permit that was available.
PermitBound ==
    /\ [](Cardinality(tasks) <= poolSize)
    /\ [][ (tasks' \ tasks) # {} => (sem > 0 /\ sem' = sem - 1
                                     /\ Cardinality(tasks' \ tasks) = 1) ]_vars

\* C1 witness: every permit is held and the dispatcher waits for one with a
\* group at hand
PermitBoundWitness ==
    /\ exit = "running"
    /\ Cardinality(tasks) = poolSize
    /\ sem = 0
    /\ dpc = "acquire"

\* C2. Successful runs terminate: unless the evaluator fails or the run ends
\* fatally, the process eventually exits with success.
SuccessfulRunsTerminate ==
    <>(exit = "success" \/ Fatal \/ evalExit = "fail")

\* C3. Path Source completeness and order: when the Path Source has ended
\* after a successful evaluator exit, the paths it produced are the drvPath
\* lines the evaluator wrote, in order, none dropped.
PathSourceComplete ==
    srcTerminal = "end" => produced = DrvPaths(written)

\* C4. Fatal propagation from the Path Source: once the Path Source has
\* reached its terminal item for an evaluator that exited unsuccessfully,
\* that item is the fatal error and the run has ended with it; no group is
\* dispatched and no task launched after the error.
FatalPropagation ==
    /\ []( (evalExit = "fail" /\ srcTerminal # "none")
           => (srcTerminal = "error" /\ exit = "err_evaluator") )
    /\ []( srcTerminal = "error" => evalExit = "fail" )
    /\ [][ srcTerminal = "error"
           => (dispatched' = dispatched /\ tasks' = tasks) ]_vars

\* C4 witness: the run ended with the evaluator's error after several paths
\* had been produced and a group dispatched
FatalPropagationWitness ==
    /\ exit = "err_evaluator"
    /\ srcTerminal = "error"
    /\ Len(produced) >= 2
    /\ Len(dispatched) >= 1

\* C5. Persisted output survives a fatal error: after a run that ended
\* fatally, every record the aggregator had appended is in the output file.
PersistedSurvivesFatal ==
    Fatal => file = appended

\* C6. Dedup idempotence: every HashRecord fed to the aggregator, however
\* often, has exactly one line in what was appended; records that differ in
\* the algorithm only are different records, each with its own line.
DedupIdempotence ==
    \A h \in Range(fed) : CountOf(appended, h) = 1

\* C6 witness: one record was fed more than once, and its value also came
\* without an algorithm; both records have their line
DedupIdempotenceWitness ==
    /\ CountOf(fed, Hash("xyz", "sha256")) >= 2
    /\ CountOf(fed, Hash("abc", "sha256")) >= 2
    /\ Hash("xyz", None) \in Range(appended)
    /\ Hash("xyz", "sha256") \in Range(appended)

\* the hashes of the received batches in the order of the claim: batch by
\* batch, derivation by derivation, the fixed-output hash before the hashes
\* of the outputs
DrvOrder(dh) ==
    [ k \in 1..(Len(dh.env) + Len(dh.outputs)) |->
        IF k <= Len(dh.env) THEN dh.env[k]
        ELSE dh.outputs[k - Len(dh.env)][2] ]

RECURSIVE BatchOrder(_, _)
BatchOrder(b, n) ==
    IF n = 0 THEN << >> ELSE BatchOrder(b, n - 1) \o DrvOrder(b[n])

RECURSIVE ReceiveOrder(_, _)
ReceiveOrder(bs, n) ==
    IF n = 0 THEN << >>
    ELSE ReceiveOrder(bs, n - 1) \o BatchOrder(bs[n], Len(bs[n]))

\* s without the later occurrences of its elements
FirstSeen(s) ==
    LET keep == { i \in 1..Len(s) : \A j \in 1..(i - 1) : s[j] # s[i] }
        RECURSIVE Pick(_)
        Pick(i) == IF i = 0 THEN << >>
                   ELSE IF i \in keep THEN Append(Pick(i - 1), s[i])
                   ELSE Pick(i - 1)
    IN  Pick(Len(s))

\* C7. Persisted output is the first-seen sequence of unique hashes: the
\* appended records are the distinct records seen so far, one each (as many
\* as the dedup set holds), in the order of first insertion, which is the
\* receive order of batches, then derivation order, then the fixed-output
\* hash before the per-output hashes.
FirstSeenOrder ==
    /\ fed \o cur = ReceiveOrder(received, Len(received))
    /\ appended = FirstSeen(fed)
    /\ Len(appended) = Cardinality(unique)
    /\ Range(appended) = unique

\* C7 witness: two batches were processed completely, the second one added
\* records after repeating a record of the first
FirstSeenOrderWitness ==
    /\ Len(received) = 2
    /\ rpc = "recv"
    /\ Len(received[1]) = 1
    /\ Len(received[2]) = 3
    /\ Len(appended) = 3
    /\ Len(fed) = 6

\* C8. Group boundary: groups are never empty; when the dispatcher is done
\* with a source that ended successfully after n paths, it has dispatched
\* ceil(n / G) groups, group i holding paths (i-1)*G+1 .. min(i*G, n) of the
\* source sequence.
GroupBoundary ==
    /\ \A i \in 1..Len(dispatched) :
          /\ dispatched[i] # << >>
          /\ Len(dispatched[i]) <= groupSize
    /\ dpc = "done" =>
          LET n == Len(produced)
          IN  /\ Len(dispatched) = (n + groupSize - 1) \div groupSize
              /\ \A i \in 1..Len(dispatched) :
                    dispatched[i] = SubSeq(produced, (i - 1) * groupSize + 1,
                                           Min(i * groupSize, n))

\* C8 witness: with the compiled group size, a source of G + 1 paths has
\* given one full group and one group of a single path
GroupBoundaryWitness ==
    /\ dpc = "done"
    /\ groupSize = STORE_PATHS_PER_QUERY
    /\ Len(produced) = STORE_PATHS_PER_QUERY + 1
    /\ Len(dispatched) = 2
    /\ Len(dispatched[2]) = 1

\* C9. Permit lifecycle: available permits plus permits held by outstanding
\* tasks are P in every state; a task that ends, with a result or an error,
\* gives back exactly its one permit, which is available in the same step.
PermitLifecycle ==
    /\ [](sem + Cardinality(tasks) = poolSize)
    /\ [][ (tasks \ tasks') # {}
           => (sem' = sem + Cardinality(tasks \ tasks') /\ sem' > 0) ]_vars

\* C9 witness: a query that failed has given its permit back while the
\* dispatcher waits to acquire one
PermitLifecycleWitness ==
    /\ exit = "running"
    /\ dpc = "acquire"
    /\ sem > 0
    /\ chunks # << >>
    /\ ~chunks[Len(chunks)].ok

\* C10. Capacity-one relay: at most one ProgressEvent is pending in the
\* stats channel, and a send completes only when none is pending.
RelayBackpressure ==
    /\ [](Len(stats) <= 1)
    /\ [][ Len(stats') > Len(stats) => stats = << >> ]_vars

\* C10 witness: the aggregator has finished a batch and waits to send its
\* event while the previous event is still in the channel
RelayBackpressureWitness ==
    /\ exit = "running"
    /\ rpc = "batch"
    /\ cur = << >>
    /\ Len(stats) = 1

\* C11 (as stated). The reporter's pace does not gate persistence: whenever
\* a batch result is available the aggregator is not held up by an event
\* the reporter has not taken.
ReporterDoesNotGatePersistence ==
    (exit = "running" /\ chunks # << >>)
    => ~(rpc = "batch" /\ cur = << >> /\ Len(stats) >= StatsCapacity)

\* C11 (amended). The reporter's pace gates the aggregator as a whole: a
\* batch is persisted before its event is sent, and while that send waits
\* for the reporter to take the previous event no further batch is received
\* or persisted; at most two batches are ever persisted beyond the events
\* the reporter has taken.
ReporterGatesAggregator ==
    /\ [](Len(received) <= (Len(events) - Len(stats)) + StatsCapacity + 1)
    /\ [][ (rpc = "batch" /\ cur = << >> /\ Len(stats) >= StatsCapacity)
           => (received' = received /\ appended' = appended
               /\ unique' = unique /\ fed' = fed) ]_vars

\* C11 witness: the aggregator waits in send with the previous event
\* untaken while another batch result is queued
ReporterGatesAggregatorWitness ==
    /\ exit = "running"
    /\ rpc = "batch"
    /\ cur = << >>
    /\ Len(stats) = 1
    /\ Len(events) = 1
    /\ Len(received) = 2
    /\ chunks # << >>
    /\ chunks[1].ok

\* C12. Line-protocol skip: an error line gives no path and does not end
\* the sequence; every drvPath line written after it is produced once the
\* sequence has ended for an evaluator that did not fail.
LineProtocolSkip ==
    /\ \A k \in Range(produced) : k \in Range(DrvPaths(written))
    /\ srcTerminal = "end" =>
          \A i \in 1..Len(written), j \in 1..Len(written) :
              (i < j /\ written[i].kind = "error"
                     /\ written[j].kind = "drvPath")
              => written[j].path \in Range(produced)

\* C13. Protocol violation fails the sequence: a line that bears neither
\* field is never passed over; once it is consumed the run has ended with
\* the panic and nothing after it is produced, and the sequence never ends
\* successfully for an output that holds such a line.
ProtocolViolationFails ==
    /\ \A i \in 1..nread :
          written[i].kind = "other"
          => (exit = "panic_protocol"
              /\ produced = DrvPaths(SubSeq(written, 1, i)))
    /\ srcTerminal = "end" =>
          \A i \in 1..Len(written) : written[i].kind # "other"

\* C14. One ProgressEvent per aggregated batch: the events sent are, in
\* order, one per batch received and completely processed; event i carries
\* the number of derivations of batch i, the number of its hashes counted
\* with duplicates, and the number of distinct hashes of batches 1..i; the
\* stats channel holds the latest of them in order.
OneEventPerBatch ==
    /\ Len(events) = Len(received) - (IF rpc = "batch" THEN 1 ELSE 0)
    /\ \A i \in 1..Len(events) :
          /\ events[i].drvs = Len(received[i])
          /\ events[i].hashes = Len(BatchOrder(received[i], Len(received[i])))
          /\ events[i].total_unique
                = Cardinality(Range(ReceiveOrder(received, i)))
    /\ stats = SubSeq(events, Len(events) - Len(stats) + 1, Len(events))

\* C14 witness: two batches gave two events; the second batch had four
\* hashes of which one was new
OneEventPerBatchWitness ==
    /\ Len(events) = 2
    /\ events[1] = [drvs |-> 1, hashes |-> 2, total_unique |-> 2]
    /\ events[2] = [drvs |-> 3, hashes |-> 4, total_unique |-> 3]

\* C15. RateEstimator boundary crossing: an update whose total crosses a
\* multiple of SCALE sets since_mark to elapsed - elapsed * complete / delta
\* with complete = delta - (total mod SCALE); any other update adds elapsed
\* to since_mark; since_start grows by elapsed.  From 950 to 1050 with
\* SCALE = 1000 over one time unit, half a unit is attributed to the mark,
\* since_mark is half a unit, and average_rate is half a unit when the unit
\* is all the time that has passed.
BoundaryCrossing ==
    [][ report'.n = report.n + 1 =>
          LET delta == bucket'.last_total - bucket.last_total
              elapsed == bucket'.last_update - bucket.last_update
              crossed == bucket'.last_total \div bucket.scale
                         > bucket.last_total \div bucket.scale
              complete == delta - (bucket'.last_total % bucket.scale)
          IN  /\ delta = bucket'.last_total - report'.prev_total
              /\ elapsed = report'.elapsed
              /\ bucket'.since_start = bucket.since_start + elapsed
              /\ crossed => bucket'.since_mark
                              = elapsed - ((elapsed * complete) \div delta)
              /\ ~crossed => bucket'.since_mark = bucket.since_mark + elapsed
              /\ (bucket.scale = 1000 /\ bucket.last_total = 950
                  /\ bucket'.last_total = 1050 /\ elapsed = Second)
                 => /\ complete = 50
                    /\ bucket'.since_mark = Second \div 2
                    /\ bucket.since_start = 0
                       => report'.avg = SomeRate(Second \div 2) ]_vars

\* C15 witness: the update from 950 to 1050 over one time unit
BoundaryCrossingWitness ==
    /\ bucket.scale = 1000
    /\ report.prev_total = 950
    /\ bucket.last_total = 1050
    /\ report.elapsed = Second
    /\ bucket.since_start = Second
    /\ bucket.since_mark = Second \div 2
    /\ report.avg = SomeRate(Second \div 2)

\* C16. Derived rates: after an update average_rate is absent exactly when
\* no mark has passed and otherwise is (since_start - since_mark) /
\* marks passed; average_rate_predictive is absent exactly when the total is
\* zero and otherwise is since_start * SCALE / total (integer quotients).
DerivedRates ==
    report.n > 0 =>
        LET marks == bucket.last_total \div bucket.scale
            toMark == bucket.since_start - bucket.since_mark
        IN  /\ report.avg = NoRate <=> bucket.last_total < bucket.scale
            /\ report.avg # NoRate =>
                  /\ report.avg[1] * marks <= toMark
                  /\ toMark < (report.avg[1] + 1) * marks
            /\ report.pred = NoRate <=> bucket.last_total = 0
            /\ report.pred # NoRate =>
                  /\ report.pred[1] * bucket.last_total
                        <= bucket.since_start * bucket.scale
                  /\ bucket.since_start * bucket.scale
                        < (report.pred[1] + 1) * bucket.last_total

\* C16 witness: two marks passed, time accrued since the last one, and the
\* two rates differ
DerivedRatesWitness ==
    /\ bucket.last_total >= 2 * bucket.scale
    /\ bucket.since_mark > 0
    /\ bucket.since_start > bucket.since_mark
    /\ report.avg # NoRate
    /\ report.pred # NoRate
    /\ report.avg # report.pred

\* the outputs of a derivation entry that carry a hash, and the k-th of them
HashedOutputs(outs) == { i \in 1..Len(outs) : outs[i].hash # Absent }

KthHashed(outs, k) ==
    CHOOSE i \in HashedOutputs(outs) :
        Cardinality({ j \in HashedOutputs(outs) : j <= i }) = k

\* the entry of the batch-completeness example
ExampleDrv ==
    DrvJson("abc", "sha256", << OutJson("out", "xyz", "sha256"),
                                OutJson("dev", Absent, Absent) >>)

\* C17 (as stated). Batch completeness of extraction for every derivation
\* entry: extraction yields a result with a fixed-output record exactly
\* when env.outputHash is present and one named record per output that
\* carries a hash.
ExtractionCompleteForEveryEntry ==
    extract.pc = "done" =>
        /\ ~extract.panicked
        /\ extract.out.env = NoHash <=> extract.json.env.outputHash = Absent
        /\ Len(extract.out.outputs)
              = Cardinality(HashedOutputs(extract.json.outputs))

\* C17 (amended). Batch completeness of extraction for every derivation
\* entry in which each output that carries a hash also carries a hashAlgo:
\* the result has a fixed-output record exactly when env.outputHash is
\* present (its algorithm none when outputHashAlgo is null or missing), and
\* one named record per output that carries a hash, in output order; the
\* example entry gives exactly (abc, sha256) and out = (xyz, sha256).
ExtractionComplete ==
    (extract.pc = "done" /\ ~extraction_panics(extract.json)) =>
        LET j == extract.json
            r == extract.out
        IN  /\ ~extract.panicked
            /\ r.env = NoHash <=> j.env.outputHash = Absent
            /\ r.env # NoHash =>
                  /\ r.env[1].hash = j.env.outputHash
                  /\ r.env[1].algo
                        = (IF j.env.outputHashAlgo = JsonNull
                              \/ j.env.outputHashAlgo = Absent
                           THEN None ELSE j.env.outputHashAlgo)
            /\ Len(r.outputs) = Cardinality(HashedOutputs(j.outputs))
            /\ \A k \in 1..Len(r.outputs) :
                  LET o == j.outputs[KthHashed(j.outputs, k)]
                  IN  r.outputs[k] = << o.name, Hash(o.hash, o.hashAlgo) >>
            /\ j = ExampleDrv =>
                  /\ r.env = << Hash("abc", "sha256") >>
                  /\ r.outputs = << << "out", Hash("xyz", "sha256") >> >>

\* C17 witness: an entry with a fixed-output hash without algorithm and two
\* outputs that both carry a hash has been extracted
ExtractionCompleteWitness ==
    /\ extract.pc = "done"
    /\ ~extract.panicked
    /\ extract.json.env.outputHash = "abc"
    /\ extract.json.env.outputHashAlgo = Absent
    /\ extract.out.env = << Hash("abc", None) >>
    /\ extract.out.outputs = << << "out", Hash("xyz", "sha256") >>,
                                << "dev", Hash("abc", "sha512") >> >>

AggregatorStopsOnError ==
    /\ [](rpc = "failed" => exit = "err_query")
    /\ [][ (exit = "running" /\ chunks # << >> /\ chunks' = Tail(chunks)
            /\ ~Head(chunks).ok)
           => (rpc' = "failed" /\ exit' = "err_query"
               /\ unique' = unique /\ appended' = appended
               /\ events' = events /\ received' = received) ]_vars
    /\ [][ rpc = "failed"
           => (unique' = unique /\ appended' = appended /\ file' = file
               /\ events' = events /\ stats' = stats
               /\ chunks' = chunks) ]_vars

\* C19 witness: the run ended with a query's error while another result was
\* queued and another query was in flight
AggregatorStopsOnErrorWitness ==
    /\ exit = "err_query"
    /\ rpc = "failed"
    /\ chunks # << >>
    /\ \E i \in 1..Len(queries) : queries[i] = "killed"

\* C20. Cancellation kills subprocesses: after a run that ended fatally no
\* metadata query is running and the evaluator is not running.
CancellationKills ==
    Fatal => /\ evalExit # "none"
             /\ \A i \in 1..Len(queries) : queries[i] # "running"

\* C20 witness: a fatal end killed the evaluator and a query in flight
CancellationKillsWitness ==
    /\ Fatal
    /\ evalExit = "killed"
    /\ \E i \in 1..Len(queries) : queries[i] = "killed"

\* C21. Prompt exit detection: once the path evaluator has exited, whether
\* or not its output pipe has been closed and wherever the consumer stands,
\* the Path Source eventually ends its sequence or the run ends.
PromptExitDetection ==
    (evalExit # "none") ~> (srcTerminal # "none" \/ exit # "running")

\* C25 (as stated). Pull-based batching: the dispatcher pulls a path from the
\* source only while a permit is free.
PullOnlyWhenSlotFree ==
    [][ produced' # produced => sem > 0 ]_vars

\* C25 (amended). The dispatcher reads ahead by at most one group: the paths
\* pulled never exceed those of the groups dispatched plus one group, and
\* while it waits for a permit with all permits held it pulls nothing.
BoundedReadAhead ==
    /\ [](Len(produced) <= groupSize * (Len(dispatched) + 1))
    /\ [][ (dpc = "acquire" /\ sem = 0)
           => (produced' = produced /\ nread' = nread) ]_vars

\* C25 witness: all permits are held, the dispatcher holds a full group it
\* pulled meanwhile and waits, leaving a written line unread
BoundedReadAheadWitness ==
    /\ exit = "running"
    /\ sem = 0
    /\ Cardinality(tasks) = poolSize
    /\ dpc = "acquire"
    /\ Len(batch) = groupSize
    /\ Len(produced) = groupSize * (Len(dispatched) + 1)
    /\ nread < Len(written)

\* the hashes of a collection of batch results, whatever their order
HashSetOf(bs) ==
    UNION { Range(BatchOrder(b, Len(b))) : b \in Range(bs) }

\* C26. Completion-order independence: between batches and at the end the
\* dedup set, the number of persisted records and the latest
\* uniqueTotalSoFar are those of the set of results received, whatever the
\* order in which they completed.
CompletionOrderIndependence ==
    rpc \in { "recv", "done" } =>
        /\ unique = HashSetOf(received)
        /\ Len(appended) = Cardinality(HashSetOf(received))
        /\ events # << >> =>
              events[Len(events)].total_unique
                 = Cardinality(HashSetOf(received))
        /\ rpc = "done" => Len(file) = Cardinality(HashSetOf(received))

\* C26 witness: the run of the aggregator ended after the result of three
\* derivations arrived before the result of one
CompletionOrderIndependenceWitness ==
    /\ rpc = "done"
    /\ Len(received) = 2
    /\ Len(received[1]) = 3
    /\ Len(received[2]) = 1
    /\ Cardinality(unique) = 3
    /\ Len(file) = 3
    /\ events[2].total_unique = 3

\* C27. RateEstimator state invariant: since_mark never exceeds since_start,
\* so the subtraction in average_rate does not underflow.
SinceMarkBounded ==
    /\ bucket.since_mark <= bucket.since_start
    /\ bucket.since_start - bucket.since_mark >= 0
    /\ report.avg # NoRate => report.avg[1] >= 0

\* C27 witness: a mark was crossed with none of the elapsed time attributed
\* to it, so that since_mark equals since_start
SinceMarkBoundedWitness ==
    /\ report.n > 0
    /\ bucket.since_start > 0
    /\ bucket.since_mark = bucket.since_start
    /\ report.avg = SomeRate(0)

\* C23. Hash text round-trip: encoding a Hash with to_string and decoding
\* the text with parse (prefix shown) or parse_as (same algorithm) yields a
\* Hash equal to the original.
HashRoundTrip ==
    (codec.pc = "done" /\ codec.op = "roundtrip") =>
        /\ codec.result.kind = "Hash"
        /\ codec.result.hash = codec.hash

\* C24. Wrong-size hashes are rejected with the decoded size: a prefixed
\* input that is decoded as base64 (SRI, or of the base64 length of the
\* algorithm's size) and whose payload decodes to a number of bytes other
\* than the algorithm's size gives InvalidHash with that algorithm and that
\* number.
WrongSizeRejected ==
    (codec.pc = "done" /\ codec.op = "parse") =>
        LET p == parse_prefix(codec.text)
            dl == decode_len(BASE64, Len(p.hash))
            r == Encoding_decode_mut(BASE64, p.hash, dl.len)
        IN  (/\ p.has_prefix
             /\ p.known
             /\ codec.want \in { None, p.algo }
             /\ p.is_sri \/ Len(p.hash) = encode_len(BASE64, size(p.algo))
             /\ dl.ok
             /\ r.kind = "ok"
             /\ r.wrote # size(p.algo))
            => codec.result = ParseFailure("InvalidHash", p.algo, r.wrote)

\* C28. Hash::parse and Hash::parse_as are total: every text gives a Hash or
\* a ParseError, never a panic.
ParseTotal ==
    (codec.pc = "done" /\ codec.op = "parse") =>
        codec.result.kind \in { "Hash", "MissingPrefix", "UnknownPrefix",
                                "ExpectedPrefix", "WrongLength",
                                "InvalidHash", "InvalidEncoding" }

\* C29. Flake-lock input resolution terminates: every call of
\* get_root_input or get_input_by_ref returns a node or none.
ResolutionReturns ==
    lock.pc = "done" => lock.outcome \in { "node", "none" }

====
